---------------------------- MODULE Spec2Model ----------------------------
(***************************************************************************)
(* A model of the course pack CBE20255:                                    *)
(*   - the notebook "Adiabatic Flame Temperature.ipynb", executed by a     *)
(*     Jupyter kernel cell after cell;                                     *)
(*   - the Markdown index of the course (its [.m]/[.pdf] links).           *)
(*                                                                         *)
(* Numbers.  The notebook computes with floats on decimal literals.  The   *)
(* model computes the same expressions exactly, with rational numbers:     *)
(* small ones are fractions [num, den] of machine integers, large ones are *)
(* numerators (arbitrary-precision integers, because the model checker's   *)
(* integers are 32 bits wide) over a common denominator that is written    *)
(* next to each operator.                                                  *)
(***************************************************************************)
EXTENDS Integers, Sequences, FiniteSets, TLC

(***************************************************************************)
(* Arbitrary-precision arithmetic: what Python's + - * compute.            *)
(* A natural is its sequence of limbs, least significant first, without    *)
(* leading zero limbs (zero is << >>); an integer is [s, m]: sign and      *)
(* magnitude.                                                              *)
(***************************************************************************)
Base == 10 ^ 4

RECURSIVE NatBig(_)
NatBig(k) ==
    IF k = 0 THEN << >> ELSE <<k % Base>> \o NatBig(k \div Base)

Rest(a) == IF a = << >> THEN << >> ELSE Tail(a)
Low(a) == IF a = << >> THEN 0 ELSE Head(a)

RECURSIVE Strip(_)
Strip(a) ==
    IF a = << >> THEN a
    ELSE IF a[Len(a)] = 0 THEN Strip(SubSeq(a, 1, Len(a) - 1))
    ELSE a

RECURSIVE BAddC(_, _, _)
BAddC(a, b, c) ==
    IF a = << >> /\ b = << >>
    THEN (IF c = 0 THEN << >> ELSE <<c>>)
    ELSE LET x == Low(a) + Low(b) + c
         IN  <<x % Base>> \o BAddC(Rest(a), Rest(b), x \div Base)

BAdd(a, b) == BAddC(a, b, 0)

\* a - b for a >= b
RECURSIVE BSubB(_, _, _)
BSubB(a, b, br) ==
    IF a = << >> THEN << >>
    ELSE LET y == Low(a) - Low(b) - br
         IN  IF y < 0
             THEN <<y + Base>> \o BSubB(Rest(a), Rest(b), 1)
             ELSE <<y>> \o BSubB(Rest(a), Rest(b), 0)

BSub(a, b) == Strip(BSubB(a, b, 0))

\* a * k for a limb k
RECURSIVE BMulSmallC(_, _, _)
BMulSmallC(a, k, c) ==
    IF a = << >>
    THEN (IF c = 0 THEN << >> ELSE <<c>>)
    ELSE LET x == Head(a) * k + c
         IN  <<x % Base>> \o BMulSmallC(Tail(a), k, x \div Base)

BMulSmall(a, k) == IF k = 0 THEN << >> ELSE BMulSmallC(a, k, 0)

Shift(a) == IF a = << >> THEN << >> ELSE <<0>> \o a

RECURSIVE BMul(_, _)
BMul(a, b) ==
    IF a = << >> \/ b = << >> THEN << >>
    ELSE BAdd(BMulSmall(a, Head(b)), Shift(BMul(a, Tail(b))))

\* -1, 0, 1 as a < b, a = b, a > b
RECURSIVE BCmpFrom(_, _, _)
BCmpFrom(a, b, i) ==
    IF i = 0 THEN 0
    ELSE IF a[i] < b[i] THEN -1
    ELSE IF a[i] > b[i] THEN 1
    ELSE BCmpFrom(a, b, i - 1)

BCmp(a, b) ==
    IF Len(a) < Len(b) THEN -1
    ELSE IF Len(a) > Len(b) THEN 1
    ELSE BCmpFrom(a, b, Len(a))

Sgn(k) == IF k < 0 THEN -1 ELSE IF k > 0 THEN 1 ELSE 0
Abs(k) == IF k < 0 THEN -k ELSE k

ZZero == [s |-> 0, m |-> << >>]
ZInt(k) == [s |-> Sgn(k), m |-> NatBig(Abs(k))]
ZNeg(x) == [s |-> -x.s, m |-> x.m]

ZAdd(x, y) ==
    IF x.s = 0 THEN y
    ELSE IF y.s = 0 THEN x
    ELSE IF x.s = y.s THEN [s |-> x.s, m |-> BAdd(x.m, y.m)]
    ELSE LET c == BCmp(x.m, y.m)
         IN  IF c = 0 THEN ZZero
             ELSE IF c = 1 THEN [s |-> x.s, m |-> BSub(x.m, y.m)]
             ELSE [s |-> y.s, m |-> BSub(y.m, x.m)]

ZSub(x, y) == ZAdd(x, ZNeg(y))
ZMul(x, y) == [s |-> x.s * y.s, m |-> BMul(x.m, y.m)]

RECURSIVE ZPow(_, _)
ZPow(x, k) == IF k = 0 THEN ZInt(1) ELSE ZMul(x, ZPow(x, k - 1))

\* -1, 0, 1 as x < y, x = y, x > y
ZCmp(x, y) == ZSub(x, y).s


(***************************************************************************)
(* Small rationals [num, den] of machine integers, den > 0, not reduced.   *)
(* Dec(m, e) is the decimal literal m * 10^-e, as 0.79 = Dec(79, 2).       *)
(***************************************************************************)
Rat(p, q) == [num |-> p, den |-> q]
Dec(m, e) == [num |-> m, den |-> 10 ^ e]
RatMul(p, q) == [num |-> p.num * q.num, den |-> p.den * q.den]
RatDiv(p, q) == [num |-> p.num * q.den, den |-> p.den * q.num]
RatEq(p, q) == p.num * q.den = q.num * p.den
RatLe(p, q) == p.num * q.den <= q.num * p.den

\* '{:w.df}'.format(q) for q >= 0: q to d decimals, as the integer q * 10^d
\* rounded to the nearest.
Fmt(q, d) ==
    LET ip == q.num \div q.den
        r  == q.num % q.den
    IN  ip * 10 ^ d + (2 * r * 10 ^ d + q.den) \div (2 * q.den)

(***************************************************************************)
(* The kernel's state: the global names the cells bind, and their values.  *)
(***************************************************************************)
VARIABLES
    pc,               \* the next cell in document order, 1 .. 7; 8: all run
    busy,             \* "idle", or the loop a running cell is in
    error,            \* "none", or the exception that stopped the run
    names,            \* the global names bound so far
    n,                \* n: species -> moles (a rational)
    DeltaH_Rxn,       \* DeltaH_Rxn
    Cp,               \* Cp: (species, phase) -> coefficients of the cubic
    T,                \* the global T: unbound, the plot's grid, or a number
    execution_count,  \* the kernel's execution counter
    counts,           \* cell -> the execution count it last ran with (0: not run)
    stdout,           \* cell -> what it printed
    plotRuns,         \* how often the plotting cell was executed
    i,                \* plotting cell: the grid point the comprehension is at
    x, fx,            \* the latest call f(x): its argument and its result
    calls,            \* the number of calls of f so far in the running cell
    xa, xb, xd,       \* brentq: the bracket [xa/xd, xb/xd]
    sa, sb,           \* brentq: the signs of f at the bracket's ends
    xm,               \* brentq: the latest iterate xm/xd
    iter              \* brentq: iterations done

nbVars == <<pc, busy, error, names, n, DeltaH_Rxn, Cp, T, execution_count,
            counts, stdout, plotRuns, i, x, fx, calls, xa, xb, xd, sa, sb,
            xm, iter>>

\* bounds of the model
MaxIter == 18       \* brentq: bisections before it returns
MaxPlotRuns == 2    \* executions of the plotting cell

(***************************************************************************)
(* The reaction of the notebook's text, CH4 + 3 O2 --> CO2 + 2 H2O, the    *)
(* atoms of each species, and the feed on the basis of 1 gmol of CH4: the  *)
(* 3 mol of O2 and the N2 that comes with them in air, (3/0.21) 0.79.      *)
(***************************************************************************)
Reaction ==
    [reactants |-> [CH4 |-> 1, O2 |-> 3],
     products  |-> [CO2 |-> 1, H2O |-> 2]]

Elements == {"C", "H", "O", "N"}

Formula ==
    [CH4 |-> [C |-> 1, H |-> 4, O |-> 0, N |-> 0],
     O2  |-> [C |-> 0, H |-> 0, O |-> 2, N |-> 0],
     CO2 |-> [C |-> 1, H |-> 0, O |-> 2, N |-> 0],
     H2O |-> [C |-> 0, H |-> 2, O |-> 1, N |-> 0],
     N2  |-> [C |-> 0, H |-> 0, O |-> 0, N |-> 2]]

RatAdd(p, q) == [num |-> p.num * q.den + q.num * p.den, den |-> p.den * q.den]

\* The atoms of element e in the mixture mix: species -> moles (rationals).
RECURSIVE AtomsIn(_, _, _)
AtomsIn(mix, S, e) ==
    IF S = {} THEN Rat(0, 1)
    ELSE LET sp == CHOOSE t \in S : TRUE
         IN  RatAdd(RatMul(mix[sp], Rat(Formula[sp][e], 1)),
                    AtomsIn(mix, S \ {sp}, e))

Atoms(mix, e) == AtomsIn(mix, DOMAIN mix, e)

\* One side of the reaction as a mixture.
Side(coef) == [sp \in DOMAIN coef |-> Rat(coef[sp], 1)]

FeedN2 == RatMul(RatDiv(Rat(Reaction.reactants.O2, 1), Dec(21, 2)), Dec(79, 2))

Feed == [CH4 |-> Rat(1, 1), O2 |-> Rat(Reaction.reactants.O2, 1), N2 |-> FeedN2]

(***************************************************************************)
(* Cell 1: n.  n['N2'] = 3*(.79/0.21).                                     *)
(***************************************************************************)
\* n['N2'] with the two mole fractions exchanged: 3*(.21/0.79).
nN2Exchanged == RatMul(Rat(3, 1), RatDiv(Dec(21, 2), Dec(79, 2)))

nN2 == RatMul(Rat(3, 1), RatDiv(Dec(79, 2), Dec(21, 2)))

\* n with an entry for the oxygen, of which none is left.
nCellWithO2 ==
    [CO2 |-> Rat(1, 1), H2O |-> Rat(2, 1), N2 |-> nN2, O2 |-> Rat(0, 1)]

nCell == [CO2 |-> Rat(1, 1), H2O |-> Rat(2, 1), N2 |-> nN2]

\* for k in n.keys(): print("n[{:3s}] =  {:5.2f}".format(k,n[k]))
PrintN(d) == {[key |-> k, val |-> Fmt(d[k], 2)] : k \in DOMAIN d}

(***************************************************************************)
(* Units.  A unit is the exponent of each base unit; a quantity is a value *)
(* with its unit.                                                          *)
(***************************************************************************)
BaseUnits == {"J", "kJ", "gmol", "degC"}
One == [b \in BaseUnits |-> 0]
U(b) == [One EXCEPT ![b] = 1]
UMul(p, q) == [b \in BaseUnits |-> p[b] + q[b]]
UDiv(p, q) == [b \in BaseUnits |-> p[b] - q[b]]
QMul(p, q) == [val |-> RatMul(p.val, q.val), unit |-> UMul(p.unit, q.unit)]

\* "a heat of combustion of -890.4 kJ/gmol"
HeatOfCombustion == [val |-> Dec(-8904, 1), unit |-> UDiv(U("kJ"), U("gmol"))]
\* "a basis of 1 gmol of CH4"
Basis == [val |-> Rat(1, 1), unit |-> U("gmol")]
\* -890.4 kJ is "-890,400 J": 1000 J/kJ
JoulesPerKJ == [val |-> Rat(1000, 1), unit |-> UDiv(U("J"), U("kJ"))]
\* "the heat of reaction is simply -890,400 J"
HeatOfReaction == QMul(QMul(HeatOfCombustion, Basis), JoulesPerKJ)

\* The moles of n on the basis, the temperatures of the integrals, and the
\* correlations of the heat capacities, J/(gmol degC).
MolesUnit == U("gmol")
TemperatureUnit == U("degC")
CpUnit == UDiv(U("J"), UMul(U("gmol"), U("degC")))
\* n[s] * quad(Cp[s,'g'], 25, T): moles times an integral of Cp over T
DeltaH_ProdUnit == UMul(MolesUnit, UMul(CpUnit, TemperatureUnit))
\* plt.ylabel('Net Enthalpy [Joules/gmol]')
YLabelUnit == UDiv(U("J"), U("gmol"))

\* DeltaH_Rxn with the heat of combustion's sign lost.
DeltaH_RxnSignLost == -(-890400)

(***************************************************************************)
(* Cell 2: DeltaH_Rxn = -890400                                            *)
(***************************************************************************)
DeltaH_RxnCell == -890400

(***************************************************************************)
(* Cell 3: the heat capacities, cubics in T given by their coefficients,   *)
(* and DeltaH_Prod.                                                        *)
(***************************************************************************)
\* A float literal m * 10^-e of the heat capacities, as 4.233e-2 = Lit(4233, 5).
Lit(m, e) == [m |-> m, e |-> e]

\* The correlations with the cubic coefficient of nitrogen ten times larger.
CpCellTypo ==
    (<<"CO2", "g">> :> <<Lit(3611, 2), Lit(4233, 5), Lit(-2887, 8), Lit(7464, 12)>>) @@
    (<<"H2O", "g">> :> <<Lit(3346, 2), Lit(688, 5), Lit(7604, 9), Lit(-3593, 12)>>) @@
    (<<"N2", "g">>  :> <<Lit(2900, 2), Lit(2199, 6), Lit(5723, 9), Lit(-2871, 11)>>)

CpCell ==
    (<<"CO2", "g">> :> <<Lit(3611, 2), Lit(4233, 5), Lit(-2887, 8), Lit(7464, 12)>>) @@
    (<<"H2O", "g">> :> <<Lit(3346, 2), Lit(688, 5), Lit(7604, 9), Lit(-3593, 12)>>) @@
    (<<"N2", "g">>  :> <<Lit(2900, 2), Lit(2199, 6), Lit(5723, 9), Lit(-2871, 12)>>)

\* A coefficient as a multiple of 10^-12: the integer c * 10^12.
Coef(c) == ZMul(ZInt(c.m), ZPow(ZInt(10), 12 - c.e))

\* A call c(u) of one of the lambdas, c its coefficients:
\* c0 + c1*T + c2*T**2 + c3*T**3 at T = u, the numerator over
\* 10^12 * u.den^3.
CpAt(c, u) ==
    LET un == ZInt(u.num)
        ud == ZInt(u.den)
        term(j) == ZMul(Coef(c[j]), ZMul(ZPow(un, j - 1), ZPow(ud, 4 - j)))
    IN  ZAdd(ZAdd(term(1), term(2)), ZAdd(term(3), term(4)))

\* The denominator of quad's results at upper limit u: 12 * 10^12 * u.den^4.
QuadDen(u) ==
    ZMul(ZMul(ZInt(12), ZPow(ZInt(10), 12)), ZPow(ZInt(u.den), 4))

\* quad integrating from 0, whatever its lower limit.
quadFromZero(c, a, u) ==
    LET un == ZInt(u.num)
        ud == ZInt(u.den)
        term(k) ==
            ZMul(ZMul(Coef(c[k]), ZInt(12 \div k)),
                 ZMul(ZPow(un, k), ZPow(ud, 4 - k)))
    IN  [val |-> ZAdd(ZAdd(term(1), term(2)), ZAdd(term(3), term(4))),
         err |-> ZZero]

\* integrate.quad(c, a, u) for a cubic c, an integer a and a rational u: the
\* definite integral sum_k c[k] * (u^k - a^k) / k, k = 1..4 (the quadrature
\* is exact on a cubic), as [val, err]: val is the numerator over
\* QuadDen(u).
quad(c, a, u) ==
    LET un == ZInt(u.num)
        ud == ZInt(u.den)
        an == ZInt(a * u.den)
        term(k) ==
            ZMul(ZMul(Coef(c[k]), ZInt(12 \div k)),
                 ZMul(ZSub(ZPow(un, k), ZPow(an, k)), ZPow(ud, 4 - k)))
    IN  [val |-> ZAdd(ZAdd(term(1), term(2)), ZAdd(term(3), term(4))),
         err |-> ZZero]

\* The product of the denominators of n, and n[s] as the integer n[s] * NDen.
NDen == n.CO2.den * n.H2O.den * n.N2.den
Moles(s) == ZInt(n[s].num * (NDen \div n[s].den))

\* The denominator of the enthalpies at temperature u.
EDen(u) == ZMul(ZInt(NDen), QuadDen(u))

\* The formula of the notebook's text for DeltaH_Prod: one integral from 25
\* to u of the cubic n_CO2 Cp_CO2 + n_H2O Cp_H2O + n_N2 Cp_N2, whose
\* coefficients are W(k); the numerator over EDen(u).
SingleIntegral(u) ==
    LET W(k) ==
            ZAdd(ZAdd(ZMul(Moles("CO2"), Coef(Cp[<<"CO2", "g">>][k])),
                      ZMul(Moles("H2O"), Coef(Cp[<<"H2O", "g">>][k]))),
                 ZMul(Moles("N2"), Coef(Cp[<<"N2", "g">>][k])))
        P(k, v) == ZMul(ZMul(W(k), ZInt(12 \div k)), ZPow(ZInt(v), k))
        F(v) ==
            \* the antiderivative at v / u.den, times u.den^4
            ZAdd(ZAdd(ZMul(P(1, v), ZPow(ZInt(u.den), 3)),
                      ZMul(P(2, v), ZPow(ZInt(u.den), 2))),
                 ZAdd(ZMul(P(3, v), ZInt(u.den)), P(4, v)))
    IN  ZSub(F(u.num), F(25 * u.den))

\* DeltaH_Prod with the integrals of H2O and N2 exchanged.
DeltaH_ProdExchanged(u) ==
    LET h1 == quad(Cp[<<"CO2", "g">>], 25, u).val
        h2 == quad(Cp[<<"H2O", "g">>], 25, u).val
        h3 == quad(Cp[<<"N2", "g">>], 25, u).val
    IN  ZAdd(ZAdd(ZMul(Moles("CO2"), h1), ZMul(Moles("H2O"), h3)),
             ZMul(Moles("N2"), h2))

\* DeltaH_Prod without the nitrogen's term.
DeltaH_ProdNoN2(u) ==
    LET h1 == quad(Cp[<<"CO2", "g">>], 25, u).val
        h2 == quad(Cp[<<"H2O", "g">>], 25, u).val
    IN  ZAdd(ZMul(Moles("CO2"), h1), ZMul(Moles("H2O"), h2))

\* def DeltaH_Prod(T): the numerator over EDen(u).
DeltaH_Prod(u) ==
    LET h1 == quad(Cp[<<"CO2", "g">>], 25, u).val
        h2 == quad(Cp[<<"H2O", "g">>], 25, u).val
        h3 == quad(Cp[<<"N2", "g">>], 25, u).val
    IN  ZAdd(ZAdd(ZMul(Moles("CO2"), h1), ZMul(Moles("H2O"), h2)),
             ZMul(Moles("N2"), h3))

(***************************************************************************)
(* Cell 4: f = lambda T: DeltaH_Rxn + DeltaH_Prod(T), the numerator over   *)
(* EDen(u).                                                                *)
(***************************************************************************)
\* f reading the global T, once it is bound, in the place of its argument.
fGlobalT(u) ==
    LET v == IF T.kind = "unbound" THEN u
             ELSE IF T.kind = "grid" THEN Rat(25, 1)
             ELSE Rat(T.num, T.den)
    IN  ZAdd(ZMul(ZInt(DeltaH_Rxn), EDen(v)), DeltaH_Prod(v))

\* f with the enthalpy of the products subtracted.
fSubtract(u) == ZSub(ZMul(ZInt(DeltaH_Rxn), EDen(u)), DeltaH_Prod(u))

f(u) == ZAdd(ZMul(ZInt(DeltaH_Rxn), EDen(u)), DeltaH_Prod(u))

\* The global names a call of f reads.
FReads == {"f", "DeltaH_Rxn", "DeltaH_Prod", "integrate", "Cp", "n"}

(***************************************************************************)
(* The cells.  Uses(c): the global names cell c reads, the names read by   *)
(* the functions it calls included; Binds(c): the names it binds (by an    *)
(* assignment, a def or an import), each before the cell first reads it.   *)
(***************************************************************************)
Cells == 1..7

\* The cells, with cell 3 defining DeltaH_prod for DeltaH_Prod.
BindsMisspelt(c) ==
    CASE c = 1 -> {"np", "plt", "n"}
      [] c = 2 -> {"DeltaH_Rxn"}
      [] c = 3 -> {"Cp", "integrate", "DeltaH_prod"}
      [] c = 4 -> {"f"}
      [] c = 5 -> {"T"}
      [] c = 6 -> {"brentq", "T"}
      [] OTHER -> {}

Binds(c) ==
    CASE c = 1 -> {"np", "plt", "n"}
      [] c = 2 -> {"DeltaH_Rxn"}
      [] c = 3 -> {"Cp", "integrate", "DeltaH_Prod"}
      [] c = 4 -> {"f"}
      [] c = 5 -> {"T"}
      [] c = 6 -> {"brentq", "T"}
      [] OTHER -> {}

Uses(c) ==
    CASE c = 1 -> {"n"}
      [] c = 3 -> {"Cp"}
      [] c = 5 -> {"np", "plt", "T"} \cup FReads
      [] c = 6 -> {"brentq", "T"} \cup FReads
      [] OTHER -> {}

\* The execution counts recorded in the notebook file, cell by cell (0: the
\* file records none, "execution_count": null).
RecordedCount == <<2, 3, 4, 5, 6, 7, 0>>

\* np.linspace(lo, hi, cnt)[k]
linspace(lo, hi, cnt, k) ==
    [num |-> lo * (cnt - 1) + k * (hi - lo), den |-> cnt - 1]

PlotPoints == 200

Unbound == [kind |-> "unbound", num |-> 0, den |-> 1]
GridT == [kind |-> "grid", num |-> 0, den |-> 1]
Scalar(q) == [kind |-> "scalar", num |-> q.num, den |-> q.den]
NoDict == [k \in {} |-> 0]

(***************************************************************************)
(* The Markdown index of the course.  Index[l] holds the links            *)
(* [label](url) of line l of the file, in their order, each url split at   *)
(* its last "/" and at the extension of its file name.                     *)
(***************************************************************************)
Link(label, dir, base, ext) ==
    [label |-> label, dir |-> dir, base |-> base, ext |-> ext]

Index ==
    <<
    << >>,
    << >>,
    << >>,
    << >>,
    << >>,
    << >>,
    << >>,
    \* line 8
    <<Link("http://github.com/jckantor/CBE20255",
           "http://github.com/jckantor/",
           "CBE20255", ""),
      Link("Creative Commons Attribution Noncommericial ShareAlike License",
           "http://creativecommons.org/licenses/by-nc-sa/4.0/",
           "", "")>>,
    << >>,
    << >>,
    \* line 11
    <<Link("Getting Started with Jupyter and Python",
           "http://nbviewer.ipython.org/github/jckantor/CBE20255/blob/master/notebooks/",
           "Getting%20Started%20with%20IPython", "ipynb")>>,
    << >>,
    << >>,
    << >>,
    \* line 15
    <<Link("Getting Started with Engineering Calculations",
           "http://nbviewer.ipython.org/github/jckantor/CBE20255/blob/master/notebooks/",
           "Getting%20Started%20with%20Engineering%20Calculations", "ipynb")>>,
    \* line 16
    <<Link("Solving Linear Equations with Sympy",
           "http://nbviewer.ipython.org/github/jckantor/CBE20255/blob/master/notebooks/",
           "Solving%20Linear%20Equations%20with%20Sympy", "ipynb")>>,
    \* line 17
    <<Link(".m",
           "https://github.com/jckantor/CBE20255/blob/master/matlab/",
           "Solving_Linear_Equations_with_CVX", "m"),
      Link(".pdf",
           "http://jckantor.github.com/CBE20255/pdf/",
           "Solving_Linear_Equations_with_CVX", "pdf")>>,
    << >>,
    << >>,
    \* line 20
    <<Link("Balancing Reactions",
           "http://nbviewer.ipython.org/github/jckantor/CBE20255/blob/master/notebooks/",
           "Balancing%20Reactions", "ipynb")>>,
    \* line 21
    <<Link("Generation/Consumption Analysis for the Production of Ammonia",
           "http://nbviewer.ipython.org/github/jckantor/CBE20255/blob/master/notebooks/",
           "Generation%20Consumption%20Analysis%20for%20Ammonia", "ipynb")>>,
    << >>,
    << >>,
    \* line 24
    <<Link("Global CO<sub>2</sub> Budget",
           "http://nbviewer.ipython.org/github/jckantor/CBE20255/blob/master/notebooks/",
           "Global%20CO2%20Budget", "ipynb")>>,
    \* line 25
    <<Link("General Mass Balance on a Single Tank",
           "http://nbviewer.ipython.org/github/jckantor/CBE20255/blob/master/notebooks/",
           "General%20Mass%20Balance%20on%20a%20Single%20Tank", "ipynb")>>,
    \* line 26
    <<Link(".m",
           "https://github.com/jckantor/CBE20255/blob/master/matlab/",
           "Ammonia_Synthesis_Reactor", "m"),
      Link(".pdf",
           "http://jckantor.github.io/CBE20255/pdf/",
           "Ammonia_Synthesis_Reactor", "pdf")>>,
    \* line 27
    <<Link("Separating Milk",
           "http://nbviewer.ipython.org/github/jckantor/CBE20255/blob/master/notebooks/",
           "Separating%20Milk", "ipynb")>>,
    \* line 28
    <<Link("Adipic Acid Flowsheet",
           "http://nbviewer.ipython.org/github/jckantor/CBE20255/blob/master/notebooks/",
           "Adipic%20Acid%20Flowsheet", "ipynb"),
      Link(".m",
           "https://github.com/jckantor/CBE20255/blob/master/matlab/",
           "Adipic_Acid_Flowsheet", "m"),
      Link(".pdf",
           "http://jckantor.github.io/CBE20255/pdf/",
           "Adipic_Acid_Flowsheet", "pdf")>>,
    << >>,
    << >>,
    \* line 31
    <<Link("Ethylene Oxide Flowsheet",
           "http://nbviewer.ipython.org/github/jckantor/CBE20255/blob/master/notebooks/",
           "Ethylene%20Oxide%20Flowsheet", "ipynb"),
      Link(".m",
           "https://github.com/jckantor/CBE20255/blob/master/matlab/",
           "Ethylene_Oxide_Flowsheet", "m"),
      Link(".pdf",
           "http://jckantor.github.com/CBE20255/pdf/",
           "Ethylene_Oxide_Flowsheet", "pdf")>>,
    \* line 32
    <<Link("Unsteady-State Material Balances",
           "http://nbviewer.ipython.org/github/jckantor/CBE20255/blob/master/notebooks/",
           "Unsteady-State%20Material%20Balances", "ipynb")>>,
    \* line 33
    <<Link(".m",
           "https://github.com/jckantor/CBE20255/blob/master/matlab/",
           "SIS_Model_for_an_Infectious_Disease", "m"),
      Link(".pdf",
           "http://jckantor.github.com/CBE20255/pdf/",
           "SIS_Model_for_an_Infectious_Disease", "pdf")>>,
    \* line 34
    <<Link(".m",
           "https://github.com/jckantor/CBE20255/blob/master/matlab/",
           "Methanol_Production", "m"),
      Link(".pdf",
           "http://jckantor.github.com/CBE20255/pdf/",
           "Methanol_Production", "pdf")>>,
    \* line 35
    <<Link(".m",
           "https://github.com/jckantor/CBE20255/blob/master/matlab/",
           "Ethylene_Glycol_Flowsheet_Material_Balances", "m"),
      Link(".pdf",
           "http://jckantor.github.com/CBE20255/pdf/",
           "Ethylene_Glycol_Flowsheet_Material_Balances", "pdf")>>,
    \* line 36
    <<Link(".m",
           "https://github.com/jckantor/CBE20255/blob/master/matlab/",
           "Fed_Batch_Fermentation_Reactor", "m"),
      Link(".pdf",
           "http://jckantor.github.com/CBE20255/pdf/",
           "Fed_Batch_Fermentation_Reactor", "pdf")>>,
    << >>,
    << >>,
    \* line 39
    <<Link("Steam Reforming of Methane",
           "http://nbviewer.ipython.org/github/jckantor/CBE20255/blob/master/notebooks/",
           "Steam%20Reforming%20of%20Methane", "ipynb")>>,
    \* line 40
    <<Link(".m",
           "https://github.com/jckantor/CBE20255/blob/master/matlab/",
           "Contact_Process_for_Sulfuric_Acid", "m"),
      Link(".pdf",
           "http://jckantor.github.com/CBE20255/pdf/",
           "Contact_Process_for_Sulfuric_Acid", "pdf")>>,
    << >>,
    << >>,
    \* line 43
    <<Link("Vapor-Liquid Equilibrium for Pure Components",
           "http://nbviewer.ipython.org/github/jckantor/CBE20255/blob/master/notebooks/",
           "Vapor-Liquid%20Equilibrium%20for%20a%20Pure%20Component", "ipynb")>>,
    \* line 44
    <<Link(".m",
           "https://github.com/jckantor/CBE20255/blob/master/matlab/",
           "Antoine_Equation", "m"),
      Link(".pdf",
           "http://jckantor.github.com/CBE20255/pdf/",
           "Antoine_Equation", "pdf")>>,
    \* line 45
    <<Link("Raoult's Law",
           "http://nbviewer.ipython.org/github/jckantor/CBE20255/blob/master/notebooks/",
           "Raoult's%20Law", "ipynb")>>,
    \* line 46
    <<Link("Txy and xy Diagrams for Binary Mixtures",
           "http://nbviewer.ipython.org/github/jckantor/CBE20255/blob/master/notebooks/",
           "Txy%20and%20xy%20Diagrams%20for%20Binary%20Mixtures", "ipynb")>>,
    \* line 47
    <<Link("Bubble and Dew Point Calculations",
           "http://nbviewer.ipython.org/github/jckantor/CBE20255/blob/master/notebooks/",
           "Bubble%20and%20Dew%20Point%20Calculations", "ipynb"),
      Link(".m",
           "https://github.com/jckantor/CBE20255/blob/master/matlab/",
           "Bubble_and_Dew_Point_Calculations", "m"),
      Link(".pdf",
           "http://jckantor.github.com/CBE20255/pdf/",
           "Bubble_and_Dew_Point_Calculations", "pdf")>>,
    \* line 48
    <<Link("Isothermal Flash",
           "http://nbviewer.ipython.org/github/jckantor/CBE20255/blob/master/notebooks/",
           "Isothermal%20Flash", "ipynb")>>,
    \* line 49
    <<Link("Binary Distillation with McCabe-Thiele",
           "http://nbviewer.ipython.org/github/jckantor/CBE20255/blob/master/notebooks/",
           "Binary%20Distillation%20with%20McCabe-Thiele", "ipynb")>>,
    << >>,
    << >>,
    \* line 52
    <<Link("Adiabatic Flame Temperature",
           "http://nbviewer.ipython.org/github/jckantor/CBE20255/blob/master/notebooks/",
           "Adiabatic%20Flame%20Temperature", "ipynb")>>,
    \* line 53
    <<Link("Torpedo Propulsion",
           "http://nbviewer.ipython.org/github/jckantor/CBE20255/blob/master/notebooks/",
           "Torpedo%20Propulsion", "ipynb")>>,
    << >>,
    << >>,
    \* line 56
    <<Link("Diesel Engine Emissions Control",
           "http://nbviewer.ipython.org/github/jckantor/CBE20255/blob/master/notebooks/",
           "Diesel%20Engine%20Emissions%20Control", "ipynb")>>,
    \* line 57
    <<Link("Pyrotechnic Design for Airbags",
           "http://nbviewer.ipython.org/github/jckantor/CBE20255/blob/master/notebooks/",
           "Pyrotechnic%20Design%20for%20Airbags", "ipynb")>>,
    \* line 58
    <<Link("Coke-Mentos Car",
           "http://nbviewer.ipython.org/github/jckantor/CBE20255/blob/master/notebooks/",
           "Coke-Mentos%20Car", "ipynb")>>,
    \* line 59
    <<Link("Flameless Cooking",
           "http://nbviewer.ipython.org/github/jckantor/CBE20255/blob/master/notebooks/",
           "Flameless%20Cooking", "ipynb")>>,
    << >>,
    << >>,
    << >>,
    \* line 63
    <<Link("West Virginia Chemical Spill",
           "http://nbviewer.ipython.org/github/jckantor/CBE20255/blob/master/notebooks/",
           "West%20Virginia%20Chemical%20Spill", "ipynb")>>,
    \* line 64
    <<Link("Ajka Alumina Plant Spill",
           "http://nbviewer.ipython.org/github/jckantor/CBE20255/blob/master/notebooks/",
           "Ajka%20Alumina%20Plant%20Spill", "ipynb")>>,
    << >>,
    << >>,
    << >>
    >>

VARIABLES
    line,       \* the line of the index being read, 1 .. Len(Index) + 1
    k,          \* the links of that line read so far
    cur,        \* the [.m] and [.pdf] links found on that line
    entries     \* the lines read that hold a [.m] or a [.pdf] link

indexVars == <<line, k, cur, entries>>

\* BaseName keeping the extension of the file name.
FileName(l) == <<l.base, l.ext>>

\* A url's file name without directory and extension.
BaseName(l) == l.base

NoLinks == [m |-> << >>, pdf |-> << >>]

(***************************************************************************)
(* The flowsheet of the reactor with two separators and a recycle, a TikZ  *)
(* picture.  Picture holds its \draw commands in their order: the four     *)
(* unit nodes, then the seven paths of the streams, each with its arrow,   *)
(* the first and the last coordinate of the path ("" where it is a         *)
(* relative coordinate, off every unit) and the nodes placed along it.     *)
(***************************************************************************)
UnitNode(name, title, extents) ==
    [kind |-> "unit", name |-> name, title |-> title, extents |-> extents]

\* node [below,midway,draw,circle] {j}
Circle(j) == [kind |-> "circle", number |-> j, labels |-> << >>, text |-> ""]
\* $A_1$: the species A with the subscript 1
Label(sp, sub) == [sp |-> sp, sub |-> sub]
\* node [above,midway] {...}: one label, or a \shortstack of labels
Above(ls) == [kind |-> "above", number |-> 0, labels |-> ls, text |-> ""]
\* node [left] {Feed}, node [right] {Product}
Text(t) == [kind |-> "text", number |-> 0, labels |-> << >>, text |-> t]

Path(arrow, first, last, nodes) ==
    [kind |-> "path", arrow |-> arrow, first |-> first, last |-> last,
     nodes |-> nodes]

Picture == <<
    UnitNode("mix", "Mixer", {}),
    UnitNode("reactor", "Reactor", {1, 2}),
    UnitNode("sep1", "Separator 1", {}),
    UnitNode("sep2", "Separator 2", {}),
    Path("<-", "mix", "",
         <<Circle(1), Above(<<Label("A", 1)>>), Text("Feed")>>),
    Path("->", "mix", "reactor",
         <<Circle(2), Above(<<Label("A", 2)>>)>>),
    Path("->", "reactor", "sep1",
         <<Circle(3),
           Above(<<Label("A", 3), Label("P", 3), Label("D", 3)>>)>>),
    Path("->", "sep1", "sep2",
         <<Circle(5), Above(<<Label("P", 5), Label("D", 5)>>)>>),
    Path("->", "sep1", "mix",
         <<Circle(4), Above(<<Label("A", 4)>>)>>),
    Path("->", "sep2", "",
         <<Circle(6), Above(<<Label("D", 6)>>), Text("By-Product")>>),
    Path("->", "sep2", "",
         <<Circle(7), Above(<<Label("P", 7)>>), Text("Product")>>)
    >>

\* The end of the path p that its arrow leaves, and the end it points to:
\* [->] puts the tip at the last coordinate, [<-] at the first.
ArrowTail(p) == IF p.arrow = "->" THEN p.first ELSE p.last
ArrowTip(p) == IF p.arrow = "->" THEN p.last ELSE p.first

\* A label's species with its subscript kept.
SpeciesWithSubscript(l) == <<l.sp, l.sub>>

\* The species a label names: its letter, without the subscript.
Species(l) == l.sp

VARIABLES
    cmd,        \* the \draw command being processed, 1 .. Len(Picture) + 1
    part,       \* within a path: 0 before it, then the nodes placed so far + 1
    units,      \* the unit nodes drawn
    stream,     \* the stream of the path being drawn
    streams     \* the streams drawn

sheetVars == <<cmd, part, units, stream, streams>>

NoStream == [from |-> "", to |-> "", number |-> 0, labels |-> {}, text |-> ""]

vars == <<nbVars, indexVars, sheetVars>>

Init ==
    /\ pc = 1 /\ busy = "idle" /\ error = "none"
    /\ names = {}
    /\ n = NoDict /\ DeltaH_Rxn = 0 /\ Cp = NoDict /\ T = Unbound
    /\ execution_count = 0
    /\ counts = [c \in Cells |-> 0]
    /\ stdout = [c \in Cells |-> {}]
    /\ plotRuns = 0 /\ i = 0
    /\ x = Rat(0, 1) /\ fx = ZZero /\ calls = 0
    /\ xa = 0 /\ xb = 0 /\ xd = 1 /\ sa = 0 /\ sb = 0 /\ xm = 0 /\ iter = 0
    /\ line = 1 /\ k = 0 /\ cur = NoLinks /\ entries = {}
    /\ cmd = 1 /\ part = 0 /\ units = {} /\ stream = NoStream /\ streams = {}

\* The kernel runs cell c: In [execution_count].
Exec(c) ==
    /\ execution_count' = execution_count + 1
    /\ counts' = [counts EXCEPT ![c] = execution_count + 1]

Ready == error = "none" /\ busy = "idle"

brentqVars == <<xa, xb, xd, sa, sb, xm, iter>>
callVars == <<x, fx, calls>>

\* import numpy as np ... n = dict() ... print
Cell1 ==
    /\ Ready /\ pc = 1
    /\ Exec(1)
    /\ names' = names \cup Binds(1)
    /\ n' = nCell
    /\ stdout' = [stdout EXCEPT ![1] = PrintN(n')]
    /\ pc' = 2
    /\ UNCHANGED <<busy, error, DeltaH_Rxn, Cp, T, plotRuns, i>>
    /\ UNCHANGED callVars /\ UNCHANGED brentqVars
    /\ UNCHANGED indexVars /\ UNCHANGED sheetVars

\* DeltaH_Rxn = -890400
Cell2 ==
    /\ Ready /\ pc = 2
    /\ Exec(2)
    /\ names' = names \cup Binds(2)
    /\ DeltaH_Rxn' = DeltaH_RxnCell
    /\ pc' = 3
    /\ UNCHANGED <<busy, error, n, Cp, T, stdout, plotRuns, i>>
    /\ UNCHANGED callVars /\ UNCHANGED brentqVars
    /\ UNCHANGED indexVars /\ UNCHANGED sheetVars

\* Cp = dict() ... from scipy import integrate; def DeltaH_Prod(T)
Cell3 ==
    /\ Ready /\ pc = 3
    /\ Exec(3)
    /\ names' = names \cup Binds(3)
    /\ Cp' = CpCell
    /\ pc' = 4
    /\ UNCHANGED <<busy, error, n, DeltaH_Rxn, T, stdout, plotRuns, i>>
    /\ UNCHANGED callVars /\ UNCHANGED brentqVars
    /\ UNCHANGED indexVars /\ UNCHANGED sheetVars

\* f = lambda T: DeltaH_Rxn + DeltaH_Prod(T)
Cell4 ==
    /\ Ready /\ pc = 4
    /\ Exec(4)
    /\ names' = names \cup Binds(4)
    /\ pc' = 5
    /\ UNCHANGED <<busy, error, n, DeltaH_Rxn, Cp, T, stdout, plotRuns, i>>
    /\ UNCHANGED callVars /\ UNCHANGED brentqVars
    /\ UNCHANGED indexVars /\ UNCHANGED sheetVars

\* A call f(u).
Call(u) ==
    /\ x' = u
    /\ fx' = f(u)
    /\ calls' = calls + 1

\* The plotting cell, which the reader may execute, execute again, or pass
\* over: T = np.linspace(25,3000,200), then the comprehension's first step.
PlotStart ==
    /\ Ready /\ pc \in {5, 6} /\ plotRuns < MaxPlotRuns
    /\ Exec(5)
    /\ plotRuns' = plotRuns + 1
    /\ i' = 0
    /\ calls' = 0
    /\ IF "np" \notin names
       THEN /\ error' = "NameError"
            /\ UNCHANGED <<busy, names, T>>
       ELSE /\ names' = names \cup Binds(5)
            /\ T' = GridT
            /\ IF Uses(5) \subseteq names'
               THEN busy' = "plot" /\ error' = error
               ELSE busy' = busy /\ error' = "NameError"
    /\ UNCHANGED <<pc, n, DeltaH_Rxn, Cp, stdout, x, fx>>
    /\ UNCHANGED brentqVars
    /\ UNCHANGED indexVars /\ UNCHANGED sheetVars

\* [f(T) for T in T]: one element of the comprehension.
PlotPoint ==
    /\ error = "none" /\ busy = "plot" /\ i < PlotPoints
    /\ Call(linspace(25, 3000, PlotPoints, i))
    /\ i' = i + 1
    /\ UNCHANGED <<pc, busy, error, names, n, DeltaH_Rxn, Cp, T,
                   execution_count, counts, stdout, plotRuns>>
    /\ UNCHANGED brentqVars
    /\ UNCHANGED indexVars /\ UNCHANGED sheetVars

\* plt.plot(...), the labels; the figure is the cell's output.
PlotShow ==
    /\ error = "none" /\ busy = "plot" /\ i = PlotPoints
    /\ busy' = "idle"
    /\ stdout' = [stdout EXCEPT ![5] = {[key |-> "figure", val |-> i]}]
    /\ pc' = 6
    /\ UNCHANGED <<error, names, n, DeltaH_Rxn, Cp, T, execution_count,
                   counts, plotRuns, i>>
    /\ UNCHANGED callVars /\ UNCHANGED brentqVars
    /\ UNCHANGED indexVars /\ UNCHANGED sheetVars

\* The reader passes over the plotting cell.
SkipPlot ==
    /\ Ready /\ pc = 5
    /\ pc' = 6
    /\ UNCHANGED <<busy, error, names, n, DeltaH_Rxn, Cp, T, execution_count,
                   counts, stdout, plotRuns, i>>
    /\ UNCHANGED callVars /\ UNCHANGED brentqVars
    /\ UNCHANGED indexVars /\ UNCHANGED sheetVars

(***************************************************************************)
(* The final cell: from scipy.optimize import brentq; T = brentq(f,25,3000) *)
(* and the print.  brentq keeps a bracket [a, b] with f(a) and f(b) of     *)
(* opposite signs, narrows it around a sign change of f and returns its    *)
(* latest iterate once the bracket is within its tolerance.  The model     *)
(* narrows the bracket by halving it, MaxIter times.                       *)
(***************************************************************************)
BrentqStart ==
    /\ Ready /\ pc = 6
    /\ Exec(6)
    /\ names' = names \cup {"brentq"}
    /\ IF ~(FReads \subseteq names')
       THEN /\ error' = "NameError"
            /\ UNCHANGED <<busy, x, fx, calls>>
            /\ UNCHANGED brentqVars
       ELSE LET fa == f(Rat(25, 1))
                fb == f(Rat(3000, 1))
            IN  /\ x' = Rat(3000, 1)
                /\ fx' = fb
                /\ calls' = 2
                /\ xa' = 25 /\ xb' = 3000 /\ xd' = 1
                /\ sa' = fa.s /\ sb' = fb.s
                /\ xm' = 3000
                /\ iter' = 0
                /\ IF fa.s * fb.s > 0
                   THEN busy' = busy /\ error' = "ValueError"
                   ELSE busy' = "brentq" /\ error' = error
    /\ UNCHANGED <<pc, n, DeltaH_Rxn, Cp, T, stdout, plotRuns, i>>
    /\ UNCHANGED indexVars /\ UNCHANGED sheetVars

BrentqStep ==
    /\ error = "none" /\ busy = "brentq"
    /\ iter < MaxIter /\ sa * sb < 0
    /\ LET m  == xa + xb
           u  == Rat(m, 2 * xd)
           fm == f(u)
       IN  /\ Call(u)
           /\ xd' = 2 * xd
           /\ xm' = m
           /\ IF fm.s = 0
              THEN xa' = m /\ xb' = m /\ sa' = 0 /\ sb' = 0
              ELSE IF fm.s = sa
              THEN xa' = m /\ xb' = 2 * xb /\ UNCHANGED <<sa, sb>>
              ELSE xa' = 2 * xa /\ xb' = m /\ UNCHANGED <<sa, sb>>
    /\ iter' = iter + 1
    /\ UNCHANGED <<pc, busy, error, names, n, DeltaH_Rxn, Cp, T,
                   execution_count, counts, stdout, plotRuns, i>>
    /\ UNCHANGED indexVars /\ UNCHANGED sheetVars

\* brentq returning the sum of the bracket's ends, not their mean.
brentqNotHalved ==
    IF sa = 0 THEN Rat(xa, xd)
    ELSE IF sb = 0 THEN Rat(xb, xd)
    ELSE Rat(2 * xm, xd)

\* What brentq returns.
brentq ==
    IF sa = 0 THEN Rat(xa, xd)
    ELSE IF sb = 0 THEN Rat(xb, xd)
    ELSE Rat(xm, xd)

\* T = brentq(...); print('... {:6.1f} degrees C.'.format(T))
BrentqReturn ==
    /\ error = "none" /\ busy = "brentq"
    /\ (iter = MaxIter \/ sa * sb = 0)
    /\ T' = Scalar(brentq)
    /\ names' = names \cup {"T"}
    /\ stdout' = [stdout EXCEPT ![6] = {[key |-> "T", val |-> Fmt(T', 1)]}]
    /\ busy' = "idle"
    /\ pc' = 7
    /\ UNCHANGED <<error, n, DeltaH_Rxn, Cp, execution_count, counts,
                   plotRuns, i>>
    /\ UNCHANGED callVars /\ UNCHANGED brentqVars
    /\ UNCHANGED indexVars /\ UNCHANGED sheetVars

\* The last cell is empty: the kernel is not asked to run anything.
EmptyCell ==
    /\ Ready /\ pc = 7
    /\ pc' = 8
    /\ UNCHANGED <<busy, error, names, n, DeltaH_Rxn, Cp, T, execution_count,
                   counts, stdout, plotRuns, i>>
    /\ UNCHANGED callVars /\ UNCHANGED brentqVars
    /\ UNCHANGED indexVars /\ UNCHANGED sheetVars

(***************************************************************************)
(* Reading the index, link after link and line after line.                 *)
(***************************************************************************)
\* The next link of the line: a [.m] or a [.pdf] link is noted.
ReadLink ==
    /\ line <= Len(Index) /\ k < Len(Index[line])
    /\ LET l == Index[line][k + 1]
       IN  cur' = IF l.label = ".m"
                  THEN [cur EXCEPT !.m = Append(@, BaseName(l))]
                  ELSE IF l.label = ".pdf"
                  THEN [cur EXCEPT !.pdf = Append(@, BaseName(l))]
                  ELSE cur
    /\ k' = k + 1
    /\ UNCHANGED <<line, entries>>
    /\ UNCHANGED nbVars /\ UNCHANGED sheetVars

\* The end of the line: a line with such links is an entry.
EndLine ==
    /\ line <= Len(Index) /\ k = Len(Index[line])
    /\ entries' = IF cur = NoLinks THEN entries
                  ELSE entries \cup {[line |-> line, m |-> cur.m, pdf |-> cur.pdf]}
    /\ line' = line + 1
    /\ k' = 0
    /\ cur' = NoLinks
    /\ UNCHANGED nbVars /\ UNCHANGED sheetVars

(***************************************************************************)
(* Drawing the flowsheet, command after command and node after node.       *)
(***************************************************************************)
\* \draw (2,1) node [unit] (mix) {Mixer};
DrawUnit ==
    /\ cmd <= Len(Picture) /\ Picture[cmd].kind = "unit"
    /\ units' = units \cup {[name |-> Picture[cmd].name,
                             title |-> Picture[cmd].title,
                             extents |-> Picture[cmd].extents]}
    /\ cmd' = cmd + 1
    /\ UNCHANGED <<part, stream, streams>>
    /\ UNCHANGED nbVars /\ UNCHANGED indexVars

\* \draw [->] (mix) -- (reactor): the path and its arrow.
DrawPath ==
    /\ cmd <= Len(Picture) /\ Picture[cmd].kind = "path" /\ part = 0
    /\ stream' = [NoStream EXCEPT !.from = ArrowTail(Picture[cmd]),
                                  !.to = ArrowTip(Picture[cmd])]
    /\ part' = 1
    /\ UNCHANGED <<cmd, units, streams>>
    /\ UNCHANGED nbVars /\ UNCHANGED indexVars

\* node [...] {...}: the circled number, the species labels or a text.
PlaceNode ==
    /\ cmd <= Len(Picture) /\ Picture[cmd].kind = "path"
    /\ part >= 1 /\ part <= Len(Picture[cmd].nodes)
    /\ LET nd == Picture[cmd].nodes[part]
       IN  stream' =
               IF nd.kind = "circle" THEN [stream EXCEPT !.number = nd.number]
               ELSE IF nd.kind = "above"
               THEN [stream EXCEPT !.labels =
                        @ \cup {nd.labels[j] : j \in 1..Len(nd.labels)}]
               ELSE [stream EXCEPT !.text = nd.text]
    /\ part' = part + 1
    /\ UNCHANGED <<cmd, units, streams>>
    /\ UNCHANGED nbVars /\ UNCHANGED indexVars

\* ; the end of the path
EndPath ==
    /\ cmd <= Len(Picture) /\ Picture[cmd].kind = "path"
    /\ part = Len(Picture[cmd].nodes) + 1
    /\ streams' = streams \cup {stream}
    /\ stream' = NoStream
    /\ part' = 0
    /\ cmd' = cmd + 1
    /\ UNCHANGED units
    /\ UNCHANGED nbVars /\ UNCHANGED indexVars

\* The documents of the repository beside the notebook, each processed in
\* its own order: the flowsheet drawn, the index read.
NextDocuments ==
    \/ DrawUnit
    \/ DrawPath
    \/ PlaceNode
    \/ EndPath
    \/ ReadLink
    \/ EndLine

SpecDocuments == Init /\ [][NextDocuments]_vars

NextIndex ==
    \/ ReadLink
    \/ EndLine

SpecIndex == Init /\ [][NextIndex]_vars

Next ==
    \/ Cell1
    \/ Cell2
    \/ Cell3
    \/ Cell4
    \/ PlotStart
    \/ PlotPoint
    \/ PlotShow
    \/ SkipPlot
    \/ BrentqStart
    \/ BrentqStep
    \/ BrentqReturn
    \/ EmptyCell

Spec == Init /\ [][Next]_vars

(***************************************************************************)
(* C1.  Running the code cells in document order, the adiabatic flame      *)
(* temperature T that brentq(f, 25, 3000) returns is the one the notebook  *)
(* prints with one decimal, 1765.5, and lies in the range 1765 to 1786:    *)
(* no cell fails, and once the final cell has run T is a number, the cell  *)
(* has printed 1765.5 and 1765 <= T <= 1786.                               *)
(***************************************************************************)
C1_FlameTemperature ==
    /\ error = "none"
    /\ pc >= 7 =>
        /\ T.kind = "scalar"
        /\ stdout[6] = {[key |-> "T", val |-> 17655]}
        /\ 1765 * T.den <= T.num
        /\ T.num <= 1786 * T.den

C1_Witness ==
    /\ pc = 8 /\ error = "none" /\ plotRuns = 1
    /\ T.kind = "scalar" /\ counts[6] = 6

(***************************************************************************)
(* C2.  The T of the final cell is a root of the enthalpy balance inside   *)
(* the bracket: 25 <= T <= 3000, and f changes sign within an interval     *)
(* around T that is as wide as the tolerance, here the bracket halved      *)
(* MaxIter times: T lies in [a, b] with b - a = (3000 - 25) / 2^MaxIter    *)
(* and f(a), f(b) not of the same sign.                                    *)
(***************************************************************************)
C2_RootInBracket ==
    /\ error = "none"
    /\ pc >= 7 =>
        /\ T.kind = "scalar"
        /\ 25 * T.den <= T.num /\ T.num <= 3000 * T.den
        /\ T.den = xd /\ xa <= T.num /\ T.num <= xb
        /\ iter = MaxIter
        /\ (xb - xa) * 2 ^ iter = (3000 - 25) * xd
        /\ f(Rat(xa, xd)).s * f(Rat(xb, xd)).s <= 0
        /\ f(Rat(xa, xd)).s <= 0 /\ f(Rat(xb, xd)).s >= 0

C2_Witness ==
    /\ pc = 7 /\ error = "none" /\ T.kind = "scalar"
    /\ f(Rat(xa, xd)).s = -1 /\ f(Rat(xb, xd)).s = 1

(***************************************************************************)
(* C3.  The reaction the notebook uses, CH4 + 3 O2 --> CO2 + 2 H2O, is     *)
(* balanced: for each of C, H and O the reactants hold as many atoms as    *)
(* the products (the moles of CO2 and H2O in n being its coefficients).    *)
(***************************************************************************)
C3_ReactionBalanced ==
    "n" \in names =>
        /\ RatEq(n.CO2, Rat(Reaction.products.CO2, 1))
        /\ RatEq(n.H2O, Rat(Reaction.products.H2O, 1))
        /\ \A e \in {"C", "H", "O"} :
               RatEq(Atoms(Side(Reaction.reactants), e),
                     Atoms(Side(Reaction.products), e))

(***************************************************************************)
(* C4.  On the basis of 1 gmol of CH4 burned with the 3 mol of O2 and the  *)
(* N2 of the air, the product gas n is 1 mol CO2, 2 mol H2O and the fed    *)
(* N2, and the atoms of each of C, H, O and N that enter with the feed     *)
(* equal those that leave in the species of n.                             *)
(***************************************************************************)
C4_AtomsConserved ==
    "n" \in names =>
        /\ DOMAIN n = {"CO2", "H2O", "N2"}
        /\ RatEq(n.CO2, Rat(1, 1)) /\ RatEq(n.H2O, Rat(2, 1))
        /\ RatEq(n.N2, Feed.N2)
        /\ \A e \in Elements : RatEq(Atoms(Feed, e), Atoms(n, e))

(***************************************************************************)
(* C5.  The moles of N2 in the product gas, n['N2'] = 3*(.79/0.21), are    *)
(* the N2 that comes with 3 mol of O2 in air of 21 mol% O2 and 79 mol% N2: *)
(* (3/0.21) 0.79, so that 21 n['N2'] = 3 * 79; to four decimals this is    *)
(* 11.2857, and the first cell prints it as 11.29.                         *)
(***************************************************************************)
C5_NitrogenMoles ==
    "n" \in names =>
        /\ RatEq(n.N2, FeedN2)
        /\ 21 * n.N2.num = 3 * 79 * n.N2.den
        /\ Fmt(n.N2, 4) = 112857
        /\ [key |-> "N2", val |-> 1129] \in stdout[1]

C5_Witness ==
    /\ "n" \in names /\ counts[1] = 1 /\ Cardinality(stdout[1]) = 3
    /\ RatEq(n.N2, Rat(79, 7))

(***************************************************************************)
(* C6.  For every temperature of [25, 3000] at which it is called,         *)
(* DeltaH_Prod, the sum n['CO2']*h1 + n['H2O']*h2 + n['N2']*h3 of three    *)
(* separate integrals, equals the single integral from 25 to that          *)
(* temperature of the mole-weighted sum of the heat capacities.            *)
(***************************************************************************)
C6_SumOfIntegrals ==
    (calls > 0 /\ busy \in {"plot", "brentq"}) =>
        /\ RatLe(Rat(25, 1), x) /\ RatLe(x, Rat(3000, 1))
        /\ DeltaH_Prod(x) = SingleIntegral(x)

C6_Witness ==
    /\ busy = "plot" /\ i = 100 /\ calls = 100
    /\ DeltaH_Prod(x).s = 1
    /\ ~RatLe(x, Rat(25, 1)) /\ ~RatLe(Rat(3000, 1), x)

(***************************************************************************)
(* C7.  The notebook is a self-contained linear sequence: with its code    *)
(* cells executed in document order no cell fails on an unbound name,      *)
(* every name a cell reads is bound by an earlier cell or by the cell      *)
(* itself, and the execution counts of the cells, those of the run and     *)
(* those recorded in the file, increase strictly in document order.        *)
(***************************************************************************)
C7_LinearSequence ==
    /\ error # "NameError"
    /\ \A c \in Cells :
        /\ Uses(c) \subseteq UNION {Binds(d) : d \in 1..c}
        /\ counts[c] > 0 => Uses(c) \subseteq names \cup Binds(c)
    /\ \A c, d \in Cells :
        /\ (c < d /\ counts[c] > 0 /\ counts[d] > 0) => counts[c] < counts[d]
        /\ (c < d /\ RecordedCount[c] > 0 /\ RecordedCount[d] > 0)
               => RecordedCount[c] < RecordedCount[d]

C7_Witness ==
    /\ pc = 8 /\ error = "none" /\ busy = "idle"
    /\ counts = <<1, 2, 3, 4, 5, 6, 0>>
    /\ names = {"np", "plt", "n", "DeltaH_Rxn", "Cp", "integrate",
                "DeltaH_Prod", "f", "brentq", "T"}

(***************************************************************************)
(* C9.  The reactants' temperature, 25 degrees C, is the reference state   *)
(* of the enthalpy balance: DeltaH_Prod(25) = 0, every integral being from *)
(* 25 to 25, and so f(25) = DeltaH_Rxn = -890400.                          *)
(***************************************************************************)
C9_ReferenceState ==
    /\ FReads \subseteq names =>
        /\ DeltaH_Prod(Rat(25, 1)) = ZZero
        /\ DeltaH_Rxn = -890400
        /\ f(Rat(25, 1)) = ZMul(ZInt(-890400), EDen(Rat(25, 1)))
    /\ (calls > 0 /\ busy = "plot" /\ RatEq(x, Rat(25, 1))) =>
        /\ DeltaH_Prod(x) = ZZero
        /\ fx = ZMul(ZInt(-890400), EDen(x))

C9_Witness ==
    /\ busy = "plot" /\ i = 1 /\ calls = 1
    /\ RatEq(x, Rat(25, 1)) /\ fx.s = -1

(***************************************************************************)
(* C8.  In the Markdown index the links to a MATLAB script and to a PDF    *)
(* come in pairs: every entry with a [.m] link has a [.pdf] link, every    *)
(* entry with a [.pdf] link has a [.m] link, and the two links have the    *)
(* same base file name.                                                    *)
(***************************************************************************)
C8_LinkPairs ==
    \A en \in entries :
        /\ Len(en.m) = 1 /\ Len(en.pdf) = 1
        /\ en.m[1] = en.pdf[1]

C8_Witness ==
    /\ line = Len(Index) + 1
    /\ Cardinality(entries) = 11
    /\ \E en \in entries :
        en.m = <<"Adipic_Acid_Flowsheet">> /\ en.pdf = <<"Adipic_Acid_Flowsheet">>

C11_ValidBracket ==
    /\ error # "ValueError"
    /\ FReads \subseteq names =>
        /\ f(Rat(25, 1)).s = -1
        /\ f(Rat(3000, 1)).s = 1
    /\ busy = "brentq" =>
        /\ sa = -1 /\ sb = 1
        /\ iter = 0 => (xa = 25 /\ xb = 3000 /\ xd = 1)

C11_Witness ==
    /\ busy = "brentq" /\ iter = 0 /\ error = "none"
    /\ counts[6] > 0 /\ "brentq" \in names
    /\ sa = -1 /\ sb = 1 /\ xa = 25 /\ xb = 3000

(***************************************************************************)
(* C12.  The root in the bracket is unique: at every temperature of        *)
(* [25, 3000] at which f is evaluated, and at every point of the plot's    *)
(* grid, each of the three heat capacities is positive and so is their     *)
(* mole-weighted sum; f is strictly increasing from each grid point to the *)
(* next; f is negative at the grid points below the computed flame         *)
(* temperature and positive at those above it.                             *)
(***************************************************************************)
C12_CpPositive(u) ==
    /\ \A s \in DOMAIN n : CpAt(Cp[<<s, "g">>], u).s = 1
    /\ ZAdd(ZAdd(ZMul(Moles("CO2"), CpAt(Cp[<<"CO2", "g">>], u)),
                 ZMul(Moles("H2O"), CpAt(Cp[<<"H2O", "g">>], u))),
            ZMul(Moles("N2"), CpAt(Cp[<<"N2", "g">>], u))).s = 1

\* p < q, for rationals whose cross products exceed the machine integers
C12_Less(p, q) ==
    ZCmp(ZMul(ZInt(p.num), ZInt(q.den)), ZMul(ZInt(q.num), ZInt(p.den))) = -1

\* f(u) < f(v), the numerators brought to one denominator
C12_FLess(u, v) ==
    ZCmp(ZMul(f(u), EDen(v)), ZMul(f(v), EDen(u))) = -1

C12_UniqueRoot ==
    /\ (FReads \subseteq names /\ calls > 0 /\ error = "none") =>
        /\ RatLe(Rat(25, 1), x) /\ RatLe(x, Rat(3000, 1))
        /\ C12_CpPositive(x)
    /\ (pc = 7 /\ error = "none") =>
        \A j \in 0..(PlotPoints - 1) :
            LET g == linspace(25, 3000, PlotPoints, j)
            IN  /\ C12_CpPositive(g)
                /\ j + 1 < PlotPoints =>
                    C12_FLess(g, linspace(25, 3000, PlotPoints, j + 1))
                /\ C12_Less(g, T) => f(g).s = -1
                /\ C12_Less(T, g) => f(g).s = 1

C12_Witness ==
    /\ pc = 7 /\ error = "none" /\ T.kind = "scalar"
    /\ C12_Less(linspace(25, 3000, PlotPoints, 116), T)
    /\ C12_Less(T, linspace(25, 3000, PlotPoints, 117))
    /\ f(linspace(25, 3000, PlotPoints, 116)).s = -1
    /\ f(linspace(25, 3000, PlotPoints, 117)).s = 1

(***************************************************************************)
(* C13.  The dictionaries n and Cp cover the same species: the keys of n   *)
(* are CO2, H2O and N2, the keys of Cp are exactly the pairs (s, 'g') of   *)
(* the keys s of n, and DeltaH_Prod is the sum over the keys s of n of one *)
(* term, n[s] times the integral from 25 of Cp[s,'g'].                     *)
(***************************************************************************)
RECURSIVE C13_TermPerSpecies(_, _)
C13_TermPerSpecies(S, u) ==
    IF S = {} THEN ZZero
    ELSE LET s == CHOOSE t \in S : TRUE
         IN  ZAdd(ZMul(Moles(s), quad(Cp[<<s, "g">>], 25, u).val),
                  C13_TermPerSpecies(S \ {s}, u))

C13_SameSpecies ==
    /\ "n" \in names => DOMAIN n = {"CO2", "H2O", "N2"}
    /\ {"n", "Cp"} \subseteq names =>
        /\ DOMAIN Cp = {<<s, "g">> : s \in DOMAIN n}
        /\ \A s \in DOMAIN n :
               Cardinality({key \in DOMAIN Cp : key[1] = s}) = 1
        /\ \A key \in DOMAIN Cp : key[1] \in DOMAIN n
        /\ DeltaH_Prod(Rat(3000, 1)) = C13_TermPerSpecies(DOMAIN n, Rat(3000, 1))
        /\ calls > 0 => DeltaH_Prod(x) = C13_TermPerSpecies(DOMAIN n, x)

C13_Witness ==
    /\ {"n", "Cp", "DeltaH_Prod"} \subseteq names
    /\ busy = "brentq" /\ iter = 5 /\ calls > 0
    /\ Cardinality(DOMAIN n) = 3 /\ Cardinality(DOMAIN Cp) = 3
    /\ DeltaH_Prod(x).s = 1

(***************************************************************************)
(* C14.  Once f is defined, no step of the notebook (a call of f or of     *)
(* DeltaH_Prod, the plotting cell and its rebinding of T to the grid, the  *)
(* final cell) changes n, Cp or DeltaH_Rxn or unbinds a name.  Whatever    *)
(* the global T is bound to, f at an argument is the net enthalpy at that  *)
(* argument, and the value a call returned is the value of f at the call's *)
(* argument after T is rebound.  While the plot is drawn T is the grid; no *)
(* run fails; after the final cell T is the scalar root, the same whether  *)
(* the plotting cell was executed, executed again or passed over: the root *)
(* that brentq finds from n, Cp and DeltaH_Rxn alone.                      *)
(***************************************************************************)
C14_Args == {Rat(25, 1), Rat(1000, 1), Rat(3000, 1)}

\* The net enthalpy at u of the notebook's text, a function of u alone:
\* the heat of reaction and the integral from 25 to u, over EDen(u).
C14_NetEnthalpy(u) ==
    ZAdd(ZMul(ZInt(DeltaH_RxnCell), EDen(u)), SingleIntegral(u))

\* brentq(f, 25, 3000) as a function of f alone: the bracket a/d, b/d
\* with the signs sa_, sb_ of f at its ends, halved MaxIter times.
RECURSIVE C14_Bisect(_, _, _, _, _, _, _)
C14_Bisect(a, b, d, m, sa_, sb_, it) ==
    IF it = MaxIter \/ sa_ * sb_ = 0
    THEN IF sa_ = 0 THEN Rat(a, d)
         ELSE IF sb_ = 0 THEN Rat(b, d)
         ELSE Rat(m, d)
    ELSE LET mm == a + b
             s  == C14_NetEnthalpy(Rat(mm, 2 * d)).s
         IN  IF s = 0 THEN C14_Bisect(mm, mm, 2 * d, mm, 0, 0, it + 1)
             ELSE IF s = sa_
             THEN C14_Bisect(mm, 2 * b, 2 * d, mm, sa_, sb_, it + 1)
             ELSE C14_Bisect(2 * a, mm, 2 * d, mm, sa_, sb_, it + 1)

C14_Root ==
    C14_Bisect(25, 3000, 1, 3000, C14_NetEnthalpy(Rat(25, 1)).s,
               C14_NetEnthalpy(Rat(3000, 1)).s, 0)

C14_State ==
    /\ error = "none"
    /\ busy = "plot" => (T = GridT /\ "T" \in names)
    /\ FReads \subseteq names =>
        /\ n = nCell /\ Cp = CpCell /\ DeltaH_Rxn = DeltaH_RxnCell
        /\ \A u \in C14_Args : f(u) = C14_NetEnthalpy(u)
        /\ calls > 0 => (fx = f(x) /\ fx = C14_NetEnthalpy(x))
    /\ pc >= 7 =>
        /\ "T" \in names /\ T.kind = "scalar"
        /\ T = Scalar(C14_Root)

C14_Step ==
    FReads \subseteq names =>
        /\ UNCHANGED <<n, Cp, DeltaH_Rxn>>
        /\ names \subseteq names'

C14_Unchanged == [] C14_State /\ [][C14_Step]_vars

C14_Witness ==
    /\ pc >= 7 /\ error = "none"
    /\ plotRuns >= 2 /\ counts[5] > 0 /\ counts[6] > counts[5]
    /\ T.kind = "scalar" /\ T = Scalar(C14_Root)
    /\ n = nCell /\ Cp = CpCell /\ DeltaH_Rxn = DeltaH_RxnCell

(***************************************************************************)
(* C15.  In the flowsheet the species labels are consistent with species   *)
(* balances.  The subscript of each label is the number of the stream it   *)
(* is drawn on.  In the finished picture, for each unit without extents of *)
(* reaction (Mixer, Separator 1, Separator 2) the species on its outlets   *)
(* are the species on its inlets; each separator has two outlets with      *)
(* disjoint species (A on stream 4 and P, D on stream 5; D on stream 6 and *)
(* P on stream 7); only the Reactor, which carries the extents 1 and 2,    *)
(* has species on its outlet, P and D, that are absent from its inlet.     *)
(***************************************************************************)
C15_SpeciesOn(st) == {Species(l) : l \in st.labels}
C15_Inlets(u) == {st \in streams : st.to = u}
C15_Outlets(u) == {st \in streams : st.from = u}
C15_In(u) == UNION {C15_SpeciesOn(st) : st \in C15_Inlets(u)}
C15_Out(u) == UNION {C15_SpeciesOn(st) : st \in C15_Outlets(u)}
C15_OnStream(j) ==
    UNION {C15_SpeciesOn(st) : st \in {t \in streams : t.number = j}}

C15_LabelsConsistent ==
    /\ \A st \in streams \cup {stream} :
           \A l \in st.labels : l.sub = st.number
    /\ cmd > Len(Picture) =>
        /\ {u.title : u \in {v \in units : v.extents = {}}} =
               {"Mixer", "Separator 1", "Separator 2"}
        /\ \A u \in units :
               u.extents = {} =>
                   /\ C15_In(u.name) # {}
                   /\ C15_Out(u.name) = C15_In(u.name)
        /\ \A u \in units :
               u.title \in {"Separator 1", "Separator 2"} =>
                   /\ Cardinality(C15_Outlets(u.name)) = 2
                   /\ \A s1, s2 \in C15_Outlets(u.name) :
                          s1 # s2 =>
                              C15_SpeciesOn(s1) \cap C15_SpeciesOn(s2) = {}
        /\ C15_Outlets("sep1") = {st \in streams : st.number \in {4, 5}}
        /\ C15_Outlets("sep2") = {st \in streams : st.number \in {6, 7}}
        /\ C15_OnStream(4) = {"A"} /\ C15_OnStream(5) = {"P", "D"}
        /\ C15_OnStream(6) = {"D"} /\ C15_OnStream(7) = {"P"}
        /\ \A u \in units :
               (C15_Out(u.name) \ C15_In(u.name) # {}) <=>
                   u.title = "Reactor"
        /\ \A u \in units :
               u.title = "Reactor" =>
                   /\ u.extents = {1, 2}
                   /\ C15_Out(u.name) \ C15_In(u.name) = {"P", "D"}

C15_Witness ==
    /\ cmd > Len(Picture) /\ part = 0
    /\ Cardinality(units) = 4 /\ Cardinality(streams) = 7
    /\ C15_In("reactor") = {"A"} /\ C15_Out("reactor") = {"A", "P", "D"}
    /\ C15_In("mix") = {"A"} /\ Cardinality(C15_Inlets("mix")) = 2

=============================================================================
